---- MODULE Spec2Model ----
(***************************************************************************)
(* Tsunami risk dashboard (src/app.py): a Streamlit script that is re-run  *)
(* top to bottom on every user interaction.  One action of the model is    *)
(* one complete run of the script.                                         *)
(*                                                                         *)
(* Real-valued quantities are fixed point: the float controls (magnitude,  *)
(* depth, dmin, gap, latitude, longitude) are in hundredths, a probability *)
(* is a numerator over PDen.                                               *)
(***************************************************************************)
EXTENDS Integers, Sequences, FiniteSets, TLC

VARIABLES
    form,        \* session widget state: control name -> current value
    nowMonth,    \* datetime.now().month
    artifact,    \* the classifier serialized in Tsunami_model.pkl
    cache,       \* st.cache_resource entry of load_model: "empty" or a model
    loadCalls,   \* number of joblib.load invocations so far
    reruns,      \* number of script runs so far
    triggered,   \* last run: the operator clicked the button to start it
    presses,     \* number of runs started by a click of the button so far
    status,      \* last run: "none", "ok", "load_error", "predict_error", "proba_error"
    input_data,  \* last run: the assembled single-row frame, NoFrame if not built
    calls,       \* last run: accesses made on the model, in order
    prediction,  \* last run: model.predict(input_data)[0], Unset if not computed
    prob,        \* last run: predict_proba(input_data)[0][1] * 100, Unset if not computed
    metric,      \* last run: the percentage shown by st.metric, in hundredths
    riskLevel,   \* last run: map_df["Risk Level"][0], "" if no map
    rendered     \* last run: elements written to the page, in order

vars == << form, nowMonth, artifact, cache, loadCalls, reruns, triggered, presses, status,
           input_data, calls, prediction, prob, metric, riskLevel, rendered >>

\* ---------------------------------------------------------------- bounds

\* script runs explored in one process lifetime
MaxReruns == 4

\* calendar months the process is started in: both ends of the year and one
\* month inside it
Months == { 1, 7, 12 }

\* ------------------------------------------------------------- fixed point

\* float controls are stored in hundredths
Scale == 100

\* a probability p is the integer p * PDen
PDen == 100000

Unset == -1

NoFrame == [columns |-> << >>, rows |-> << >>]

\* ---------------------------------------------------------------- sidebar

ControlNames ==
    << "magnitude", "depth", "cdi", "mmi", "sig", "nst", "dmin", "gap",
       "latitude", "longitude", "year", "month" >>

Controls == { ControlNames[i] : i \in 1..Len(ControlNames) }

\* min_value of each control
Lo(c) ==
    CASE c = "magnitude" -> 4 * Scale
      [] c = "depth"     -> 0
      [] c = "cdi"       -> 0
      [] c = "mmi"       -> 0
      [] c = "sig"       -> 0
      [] c = "nst"       -> 0
      [] c = "dmin"      -> 0
      [] c = "gap"       -> 0
      [] c = "latitude"  -> -90 * Scale
      [] c = "longitude" -> -180 * Scale
      [] c = "year"      -> 1900
      [] c = "month"     -> 1

\* max_value of each control
Hi(c) ==
    CASE c = "magnitude" -> 10 * Scale
      [] c = "depth"     -> 700 * Scale
      [] c = "cdi"       -> 10
      [] c = "mmi"       -> 10
      [] c = "sig"       -> 1000
      [] c = "nst"       -> 1000
      [] c = "dmin"      -> 10 * Scale
      [] c = "gap"       -> 180 * Scale
      [] c = "latitude"  -> 90 * Scale
      [] c = "longitude" -> 180 * Scale
      [] c = "year"      -> 2025
      [] c = "month"     -> 12

\* value of each control before the operator touches it
Default(c, m) ==
    CASE c = "magnitude" -> 650
      [] c = "depth"     -> 50 * Scale
      [] c = "cdi"       -> 5
      [] c = "mmi"       -> 5
      [] c = "sig"       -> 600
      [] c = "nst"       -> 100
      [] c = "dmin"      -> 1 * Scale
      [] c = "gap"       -> 40 * Scale
      [] c = "latitude"  -> 0
      [] c = "longitude" -> 0
      [] c = "year"      -> 2024
      [] c = "month"     -> m

\* variant: the control hands on whatever was requested
NoClamp(c, v) == v

\* a widget only ever yields a value inside [min_value, max_value]
Clamp(c, v) == IF v < Lo(c) THEN Lo(c) ELSE IF v > Hi(c) THEN Hi(c) ELSE v

\* values the operator tries on a control: one step past each end, and for
\* magnitude the neighbourhood of the two map thresholds
Requested(c) ==
    { Lo(c) - 1, Hi(c) + 1 }
        \cup (IF c = "magnitude" THEN { 499, 500, 699, 700, 750 } ELSE { })

\* ------------------------------------------------------------- input frame

\* variant: the dict is written in the order of the sidebar
ColumnsInSidebarOrder ==
    << "magnitude", "depth", "cdi", "mmi", "sig", "nst", "dmin", "gap",
       "latitude", "longitude", "Year", "Month" >>

\* the keys of the dict handed to pd.DataFrame, in the order written
Columns ==
    << "magnitude", "cdi", "mmi", "sig", "nst", "dmin", "gap", "depth",
       "latitude", "longitude", "Year", "Month" >>

\* the sidebar variable each column is filled from
ControlOf(col) ==
    CASE col = "Year"  -> "year"
      [] col = "Month" -> "month"
      [] OTHER         -> col

\* pd.DataFrame([{...}]): one row, the dict's keys in insertion order
InputData(f) ==
    [columns |-> Columns,
     rows    |-> << [i \in 1..Len(Columns) |-> f[ControlOf(Columns[i])]] >>]

\* value of a column in the single row of a frame
Cell(df, col) ==
    LET i == CHOOSE k \in 1..Len(df.columns) : df.columns[k] = col
    IN  df.rows[1][i]

\* ------------------------------------------------------- the loaded model

\* classifiers the artifact may hold; each answers predict, predict_proba and
\* feature_importances_ as below
\*   "forest"   tree ensemble: importances for all twelve columns
\*   "svc"      returns class 1 with probability 0.82; no feature_importances_
\*   "wrapped"  a wrapper that selects eleven of the columns itself and
\*              reports eleven importances; its class does not follow its
\*              class-1 probability
\*   "faulty"   predict raises on sig = 0, predict_proba raises on nst = 0
ModelKinds == { "forest", "svc", "wrapped", "faulty" }

\* does model.predict(input_data) raise
PredictRaises(m, df) == m = "faulty" /\ Cell(df, "sig") = 0

\* model.predict(input_data)[0]
Predict(m, df) ==
    CASE m = "forest"   -> IF Cell(df, "magnitude") >= 650 THEN 1 ELSE 0
      [] m = "svc"      -> 1
      [] m = "wrapped"  -> IF Cell(df, "depth") <= 50 * Scale THEN 1 ELSE 0
      [] m = "faulty"   -> 0

\* does model.predict_proba(input_data) raise
ProbaRaises(m, df) == m = "faulty" /\ Cell(df, "nst") = 0

\* model.predict_proba(input_data)[0][1], as a numerator over PDen
PredictProba(m, df) ==
    CASE m = "forest"   -> Cell(df, "magnitude") * 100 - 3
      [] m = "svc"      -> 82000
      [] m = "wrapped"  -> IF Cell(df, "gap") >= 40 * Scale THEN 90004 ELSE 10006
      [] m = "faulty"   -> IF Cell(df, "cdi") = 0 THEN 0 ELSE PDen

\* the model has a feature_importances_ attribute (reading it raises
\* AttributeError otherwise)
HasImportances(m) == m # "svc"

\* len(model.feature_importances_) when the attribute exists

ImportancesLen(m) == IF m = "wrapped" THEN 11 ELSE 12

\* ------------------------------------------------------------- presenter

\* n / d rounded to the nearest integer, ties to even (n >= 0, d > 0)
RoundHalfEven(n, d) ==
    LET q == n \div d
        r == n % d
    IN  IF 2 * r < d THEN q
        ELSE IF 2 * r > d THEN q + 1
        ELSE IF q % 2 = 0 THEN q ELSE q + 1

\* prob = p * 100, same denominator
Percent(p) == p * 100

\* f"{prob:.2f}": the percentage in hundredths
Fmt2(x) == RoundHalfEven(x * 100, PDen)

\* variant: the branch tests for class 0
VerdictOnZero(pred) == IF pred = 0 THEN "verdict_high" ELSE "verdict_none"

\* the verdict element chosen by `if prediction == 1`
Verdict(pred) == IF pred = 1 THEN "verdict_high" ELSE "verdict_none"

\* variant: strict comparisons
RiskLevelStrict(mag) ==
    IF mag > 7 * Scale THEN "High"
    ELSE IF mag > 5 * Scale THEN "Moderate"
    ELSE "Low"

\* "High" if magnitude >= 7 else "Moderate" if magnitude >= 5 else "Low"
RiskLevel(mag) ==
    IF mag >= 7 * Scale THEN "High"
    ELSE IF mag >= 5 * Scale THEN "Moderate"
    ELSE "Low"

\* the try block of the feature importance section raises: the attribute is
\* missing, or the frame cannot be built from columns and importances of
\* different lengths
ImportanceRaises(m, df) ==
    \/ ~HasImportances(m)
    \/ ImportancesLen(m) # Len(df.columns)

\* variant: no except clause, the error reaches the page
ImportanceUncaught(m, df) ==
    IF ImportanceRaises(m, df) THEN "exception" ELSE "importance_chart"

\* try: ... st.plotly_chart(fig_imp)  except Exception: st.info(...)
ImportanceElement(m, df) ==
    IF ImportanceRaises(m, df) THEN "importance_fallback" ELSE "importance_chart"

\* elements written before the button: title, input summary, the button itself
Preamble == << "title", "summary", "button" >>

\* elements of the `if st.button(...)` branch that follow the two model calls
Results(m, df, pred) ==
    << Verdict(pred), "metric", "gauge", "timestamp", "map",
       ImportanceElement(m, df) >>

\* ---------------------------------------------------------------- script

\* load_model() under st.cache_resource: a hit returns the cached object; a
\* miss calls joblib.load, and stores the result only if the call returns
\* variant: load_model without the cache decorator
CacheNeverHit == FALSE

CacheHit == cache # "empty"

LoadModel(ok) ==
    IF CacheHit
    THEN [model |-> cache, cache |-> cache, loads |-> 0, raised |-> FALSE]
    ELSE IF ok
    THEN [model |-> artifact, cache |-> artifact, loads |-> 1, raised |-> FALSE]
    ELSE [model |-> "empty", cache |-> "empty", loads |-> 1, raised |-> TRUE]

\* variant: the frame is built inside the button branch
AssembleOnClick(f, clicked) == IF clicked THEN InputData(f) ELSE NoFrame

\* variant: the frame of the previous run is kept and reused
AssembleStale(f, clicked) == IF input_data # NoFrame THEN input_data ELSE InputData(f)

\* input_data is assigned at script level, above the button: every run that
\* gets there builds it from the values the sidebar returned in that run
Assemble(f, clicked) == InputData(f)

\* variant: the branch is taken whether or not the button was clicked
ButtonAlways(clicked) == TRUE

\* st.button(...): True in the run started by a click, False in any other
Button(clicked) == clicked

\* one run of the script on form values f; clicked: the run was started by a
\* click of the button; ok: joblib.load, if called, returns
Script(f, clicked, ok) ==
    LET ld   == LoadModel(ok)
        m    == ld.model
        df   == Assemble(f, clicked)
        trig == Button(clicked)
    IN  /\ reruns' = reruns + 1
        /\ triggered' = clicked
        /\ presses' = IF clicked THEN presses + 1 ELSE presses
        /\ cache' = ld.cache
        /\ loadCalls' = loadCalls + ld.loads
        /\ UNCHANGED << nowMonth, artifact >>
        /\ IF ld.raised
           THEN \* line 43 raises: nothing below it runs
                /\ status' = "load_error"
                /\ input_data' = NoFrame
                /\ calls' = << >>
                /\ prediction' = Unset
                /\ prob' = Unset
                /\ metric' = Unset
                /\ riskLevel' = ""
                /\ rendered' = << "exception" >>
           ELSE /\ input_data' = df
                /\ IF ~trig
                   THEN /\ status' = "ok"
                        /\ calls' = << >>
                        /\ prediction' = Unset
                        /\ prob' = Unset
                        /\ metric' = Unset
                        /\ riskLevel' = ""
                        /\ rendered' = Preamble \o << "prompt" >>
                   ELSE IF PredictRaises(m, df)
                   THEN /\ status' = "predict_error"
                        /\ calls' = << "predict" >>
                        /\ prediction' = Unset
                        /\ prob' = Unset
                        /\ metric' = Unset
                        /\ riskLevel' = ""
                        /\ rendered' = Preamble \o << "exception" >>
                   ELSE IF ProbaRaises(m, df)
                   THEN /\ status' = "proba_error"
                        /\ calls' = << "predict", "predict_proba" >>
                        /\ prediction' = Predict(m, df)
                        /\ prob' = Unset
                        /\ metric' = Unset
                        /\ riskLevel' = ""
                        /\ rendered' = Preamble \o << "exception" >>
                   ELSE /\ status' = "ok"
                        /\ calls' = << "predict", "predict_proba", "feature_importances_" >>
                        /\ prediction' = Predict(m, df)
                        /\ prob' = Percent(PredictProba(m, df))
                        /\ metric' = Fmt2(Percent(PredictProba(m, df)))
                        /\ riskLevel' = RiskLevel(f["magnitude"])
                        /\ rendered' = Preamble \o Results(m, df, Predict(m, df))

\* ---------------------------------------------------------------- actions

Init ==
    /\ nowMonth \in Months
    /\ artifact \in ModelKinds
    /\ form = [c \in Controls |-> Default(c, nowMonth)]
    /\ cache = "empty"
    /\ loadCalls = 0
    /\ reruns = 0
    /\ triggered = FALSE
    /\ presses = 0
    /\ status = "none"
    /\ input_data = NoFrame
    /\ calls = << >>
    /\ prediction = Unset
    /\ prob = Unset
    /\ metric = Unset
    /\ riskLevel = ""
    /\ rendered = << >>

\* the sidebar was drawn by the last run
SidebarShown == status \in { "ok", "predict_error", "proba_error" }

\* the page is opened, or re-run with nothing changed
Refresh ==
    /\ reruns < MaxReruns
    /\ \E ok \in BOOLEAN :
          /\ (CacheHit => ok)
          /\ Script(form, FALSE, ok)
    /\ form' = form

\* the operator moves one control; the script re-runs with the button unpressed
ChangeControl ==
    /\ reruns < MaxReruns
    /\ SidebarShown
    /\ \E c \in Controls :
          \E v \in Requested(c) :
             LET f == [form EXCEPT ![c] = Clamp(c, v)]
             IN  /\ f # form
                 /\ form' = f
                 /\ Script(f, FALSE, TRUE)

\* the operator clicks the button; the script re-runs with st.button True
PressButton ==
    /\ reruns < MaxReruns
    /\ SidebarShown
    /\ form' = form
    /\ Script(form, TRUE, TRUE)

Next == Refresh \/ ChangeControl \/ PressButton

Spec == Init /\ [][Next]_vars

\* ---------------------------------------------------------- properties

\* element e is on the page after the last run
Shown(e) == \E i \in 1..Len(rendered) : rendered[i] = e

\* the last run got past load_model and drew the page
Served == status \in { "ok", "predict_error", "proba_error" }

\* the elements that present a prediction
Outputs ==
    { "verdict_high", "verdict_none", "metric", "gauge", "timestamp", "map",
      "importance_chart", "importance_fallback" }

NoOutputShown == \A e \in Outputs : ~Shown(e)

\* C1 as stated: joblib.load is called at most once in a process lifetime.
C1_LoadAtMostOnce == loadCalls <= 1

\* C1, amended: once load_model has returned a model, no later run calls
\* joblib.load and every later run gets that same cached object; the one call
\* that fills the cache is one joblib.load of the artifact.  (A call in which
\* joblib.load raises stores nothing, so the next run calls it again.)
C1_LoadOnceCached ==
    [][ /\ (cache # "empty") => (loadCalls' = loadCalls /\ cache' = cache)
        /\ (cache = "empty" /\ cache' # "empty")
              => (loadCalls' = loadCalls + 1 /\ cache' = artifact) ]_vars

\* one failed load, one successful load, then a run served from the cache
C1_Witness == cache # "empty" /\ loadCalls = 2 /\ reruns = 3

\* C2: in every run the model is called if and only if the run was started
\* by the button (predict first, predict_proba only after it); a run without
\* the button calls nothing on the model, shows none of the prediction
\* outputs, and a run that reaches the button shows the prompt in their place.
C2_PredictorIffTrigger ==
    /\ triggered <=> calls # << >>
    /\ triggered => (calls[1] = "predict" /\ ~Shown("prompt"))
    /\ (triggered /\ status # "predict_error")
          => (Len(calls) >= 2 /\ calls[2] = "predict_proba")
    /\ ~triggered => (NoOutputShown /\ prediction = Unset /\ prob = Unset)
    /\ (~triggered /\ Served) => rendered = << "title", "summary", "button", "prompt" >>

\* a run without the button that follows a run with it
C2_Witness == ~triggered /\ status = "ok" /\ presses >= 1 /\ Shown("prompt")

\* C3 as stated: the i-th field of the record holds the i-th control of the
\* schema listing (magnitude, depth, cdi, mmi, sig, nst, dmin, gap, latitude,
\* longitude, year, month).
C3_SchemaListingOrder ==
    Served => \A i \in 1..12 : input_data.rows[1][i] = form[ControlNames[i]]

\* C3, amended: the record has one row and twelve fields, every field holds
\* the current value of its control, and the fields are, in order, magnitude,
\* cdi, mmi, sig, nst, dmin, gap, depth, latitude, longitude, Year, Month.
C3_RecordMatchesControls ==
    Served =>
       /\ Len(input_data.rows) = 1
       /\ Len(input_data.columns) = 12
       /\ Len(input_data.rows[1]) = 12
       /\ input_data.columns =
             << "magnitude", "cdi", "mmi", "sig", "nst", "dmin", "gap", "depth",
                "latitude", "longitude", "Year", "Month" >>
       /\ input_data.rows[1] =
             << form["magnitude"], form["cdi"], form["mmi"], form["sig"],
                form["nst"], form["dmin"], form["gap"], form["depth"],
                form["latitude"], form["longitude"], form["year"], form["month"] >>

\* the record of a run after depth and magnitude were moved
C3_Witness ==
    /\ Served
    /\ input_data.columns[8] = "depth"
    /\ input_data.rows[1][8] = 70000
    /\ input_data.rows[1][1] = 750

\* C4: every value of the assembled record lies inside the declared range of
\* its control, whatever the operator asked of the controls.
C4_ValuesWithinBounds ==
    Served =>
       /\ Cell(input_data, "magnitude") \in 400..1000
       /\ Cell(input_data, "depth") \in 0..70000
       /\ Cell(input_data, "cdi") \in 0..10
       /\ Cell(input_data, "mmi") \in 0..10
       /\ Cell(input_data, "sig") \in 0..1000
       /\ Cell(input_data, "nst") \in 0..1000
       /\ Cell(input_data, "dmin") \in 0..1000
       /\ Cell(input_data, "gap") \in 0..18000
       /\ Cell(input_data, "latitude") \in -9000..9000
       /\ Cell(input_data, "longitude") \in -18000..18000
       /\ Cell(input_data, "Year") \in 1900..2025
       /\ Cell(input_data, "Month") \in 1..12

\* a record assembled after the operator asked for 1001 and for -90.01
C4_Witness ==
    /\ Served
    /\ Cell(input_data, "sig") = 1000
    /\ Cell(input_data, "latitude") = -9000

\* C5: in a completed trigger cycle the class is 0 or 1, the high-risk verdict
\* is shown exactly when the class is 1 and the no-risk verdict exactly when
\* it is 0, whatever the probability; prob is the class-1 probability times
\* 100, lies in [0, 100], and the metric shows it to the nearest hundredth
\* (class 1 with 0.82 shows the high-risk verdict and 82.00).
C5_VerdictAndPercentage ==
    (triggered /\ status = "ok") =>
       LET p == PredictProba(cache, input_data)
           d == metric * PDen - prob * 100
       IN  /\ prediction \in { 0, 1 }
           /\ Shown("verdict_high") <=> prediction = 1
           /\ Shown("verdict_none") <=> prediction = 0
           /\ prob = 100 * p
           /\ prob >= 0 /\ prob <= 100 * PDen
           /\ metric \in 0..10000
           /\ 2 * d <= PDen /\ 2 * d >= -PDen
           /\ (prediction = 1 /\ p = 82000) => (Shown("verdict_high") /\ metric = 8200)

\* class 1 with probability 0.82
C5_Witness ==
    /\ triggered /\ status = "ok"
    /\ prediction = 1 /\ prob = 8200000 /\ metric = 8200
    /\ Shown("verdict_high")

\* C6: whenever the map is drawn its risk level is decided by the magnitude
\* alone: High from 7.0 up, Moderate from 5.0 up to but not including 7.0,
\* Low below 5.0; exactly one of the three.
C6_RiskBucketByMagnitude ==
    /\ Shown("map") =>
          /\ riskLevel \in { "High", "Moderate", "Low" }
          /\ riskLevel = "High" <=> form["magnitude"] >= 700
          /\ riskLevel = "Moderate" <=> (form["magnitude"] >= 500 /\ form["magnitude"] < 700)
          /\ riskLevel = "Low" <=> form["magnitude"] < 500
    /\ ~Shown("map") => riskLevel = ""

\* a map in the High bucket while the model predicts class 0
C6_Witness == Shown("map") /\ riskLevel = "High" /\ prediction = 0

\* C7: a trigger cycle on a model without feature_importances_, whose two
\* predictor calls return, completes: the fallback message stands in place of
\* the chart, nothing is raised to the page, and the verdict, metric, gauge,
\* timestamp and map of that cycle are shown.
C7_FallbackWithoutAccessor ==
    (triggered /\ ~HasImportances(cache)
        /\ status \notin { "predict_error", "proba_error" }) =>
       /\ status = "ok"
       /\ Shown("importance_fallback")
       /\ ~Shown("importance_chart")
       /\ ~Shown("exception")
       /\ Shown("verdict_high") \/ Shown("verdict_none")
       /\ Shown("metric") /\ Shown("gauge") /\ Shown("timestamp") /\ Shown("map")
       /\ rendered[Len(rendered)] = "importance_fallback"

\* a completed cycle on the model without the accessor
C7_Witness ==
    /\ triggered /\ ~HasImportances(cache)
    /\ Shown("importance_fallback") /\ Shown("map")

\* C8 as stated: the fallback message appears only when the accessor is
\* missing; a failure of predict or predict_proba reaches the page and ends
\* the run before any output is shown.
C8_OnlyMissingAccessorCaught ==
    /\ Shown("importance_fallback") => ~HasImportances(cache)
    /\ status \in { "predict_error", "proba_error" }
          => (Shown("exception") /\ NoOutputShown /\ cache # "empty")

\* C9 as stated: a record is built only in a run started by the button.
C9_RecordOnlyOnTrigger == input_data # NoFrame => triggered

\* C9, amended: the record is built in every run that gets past load_model,
\* started by the button or not, from the form values of that run.
C9_RecordEveryRun ==
    /\ Served <=> input_data # NoFrame
    /\ Served =>
          /\ Len(input_data.rows) = 1
          /\ \A c \in { "magnitude", "depth", "cdi", "mmi", "sig", "nst", "dmin",
                        "gap", "latitude", "longitude" } :
                Cell(input_data, c) = form[c]
          /\ Cell(input_data, "Year") = form["year"]
          /\ Cell(input_data, "Month") = form["month"]

\* a record built in a run without the button, after a control was moved
C9_Witness ==
    /\ ~triggered /\ status = "ok"
    /\ input_data # NoFrame
    /\ Cell(input_data, "magnitude") = 499

\* C10: a run started by the button leaves the cached model and the form
\* values as they were; a completed run without the button holds no result
\* and shows the prompt, whatever was shown before; and the class,
\* percentage and risk level of a completed trigger cycle are those the
\* cached model gives for the form values of that run.
C10_NoCarriedState ==
    [][ /\ triggered' => (cache' = cache /\ form' = form)
        /\ (~triggered' /\ status' = "ok") =>
              /\ prediction' = Unset /\ prob' = Unset /\ metric' = Unset
              /\ riskLevel' = ""
              /\ rendered' = << "title", "summary", "button", "prompt" >>
        /\ (triggered' /\ status' = "ok") =>
              /\ prediction' = Predict(cache', InputData(form'))
              /\ prob' = 100 * PredictProba(cache', InputData(form'))
              /\ riskLevel' = (IF form'["magnitude"] >= 700 THEN "High"
                               ELSE IF form'["magnitude"] >= 500 THEN "Moderate"
                               ELSE "Low") ]_vars

\* a second trigger cycle, on form values the operator moved to the lowest
\* magnitude, where the model gives class 0
C10_Witness ==
    /\ triggered /\ status = "ok" /\ presses = 2
    /\ artifact = "forest" /\ form["magnitude"] = 400 /\ prediction = 0

====
